---------------------------- MODULE Spec2Model ----------------------------
(***************************************************************************)
(* A model of dalmatian's WorkspaceManager (src/dalmatian/wmanager.py):     *)
(*   - get_entity_status : latest submission status per entity             *)
(*   - patch_attributes  : recovery of output attributes from metadata     *)
(*   - get_stats         : metadata fetch loop and per-task statistics     *)
(* The remote workspace (submissions, workflow metadata, entity table) is  *)
(* drawn from bounded sets in the initial states; every method is a small  *)
(* state machine whose steps follow the statements of the source.          *)
(***************************************************************************)
EXTENDS Integers, Sequences, FiniteSets, TLC

VARIABLES
    \* ---- get_entity_status ----
    submissions,   \* list returned by list_submissions(config)        (l.447)
    etype,         \* requested entity type                             (l.443)
    k,             \* number of submissions the for loop has consumed   (l.451)
    entity_dict,   \* entity id -> latest record                        (l.450)
    status_df,     \* the returned table                                (l.474-477)
    fetch_failed,  \* a get_submission response was not 200             (l.406)
    pcS,           \* "loop" | "returned" | "raised"
    \* ---- get_stats: metadata fetch loop ----
    stats_status,  \* the status_df argument: entity id -> status      (l.673)
    ki,            \* entities the for loop has completed               (l.680)
    fetch,         \* the while flag                                     (l.682)
    metadata_dict, \* entity id -> metadata                              (l.679)
    tries,         \* calls of get_workflow_metadata made so far
    last_code,     \* status code of the latest metadata response
    pcF,           \* "fetch" | "tasks" | "raised"
    \* ---- get_stats: one task of one entity ----
    calls,         \* metadata_dict[i]['calls'][t], the attempt list    (l.720)
    successes,     \* shard index -> accepted attempt                   (l.717)
    preemptions,   \* attempts classified as preemptions                (l.718)
    row,           \* task_dfs[task_name].loc[i]                         (l.706)
    wf,            \* workflow_status_df.loc[i]                          (l.759)
    pcT,           \* "shards" | "stats" | "rollup" | "done" | "raised"
    \* ---- patch_attributes ----
    dry_run,       \* the dry_run argument                               (l.497)
    entity,        \* the entity argument                                (l.497)
    store,         \* the remote entity table: id -> attribute -> value
    store0,        \* the entity table when patch_attributes was called
    latest,        \* sample_status_df['status']                         (l.520)
    metadata,      \* remote workflow metadata of each entity's latest run
    incomplete,    \* incomplete_df.index                                (l.515)
    incomplete_df, \* the rows of incomplete_df                          (l.515)
    passes,        \* passes of the loop made so far                     (l.532)
    task_counts,   \* defaultdict(int) of applied counts                 (l.531)
    reported,      \* the counts printed by each finished call          (l.555)
    run,           \* which call of patch_attributes this is
    update_calls,  \* calls of update_*_attributes made so far           (l.539)
    try_failed,    \* an exception was raised inside the try block      (l.535)
    fetched,       \* entities whose metadata fetch answered 200        (l.536)
    pcP,           \* "start" | "samples" | "sets" | "finish" | "done" | "raised"
    \* ---- get_stats: the loop over the workflow names ----
    trees,         \* metadata_dict as the fetch loop would leave it    (l.679)
    w_todo,        \* np.unique(workflows) still to be processed        (l.698)
    w_done,        \* workflow names the loop has processed             (l.698)
    workflow_status_df, \* the workflow-level table of the latest group (l.699)
    task_dfs,      \* task name -> table of the latest group            (l.703)
    pcG            \* "groups" | "returned" | "raised"

statusVars == <<submissions, etype, k, entity_dict, status_df, fetch_failed, pcS>>
fetchVars  == <<stats_status, ki, fetch, metadata_dict, tries, last_code, pcF>>
taskVars   == <<calls, successes, preemptions, row, wf, pcT>>

patchVars  == <<dry_run, entity, store, store0, latest, metadata, incomplete,
                incomplete_df, passes, task_counts, reported, run,
                update_calls, try_failed, fetched, pcP>>

groupVars  == <<trees, w_todo, w_done, workflow_status_df, task_dfs, pcG>>

vars == <<statusVars, fetchVars, taskVars, patchVars, groupVars>>

-----------------------------------------------------------------------------
(* Bounds of the model *)

MaxSubs == 2
MaxTries == 3
MaxAttempts == 3
MaxRuns == 2

(* The remote vocabulary *)
Entities    == {"S1", "S2"}
EntityTypes == {"sample", "sample_set"}
Statuses    == {"Failed", "Succeeded"}

\* An ISO-8601 submission date: a local clock reading and a UTC offset.
SubmissionDates == {[local |-> 1, off |-> 0], [local |-> 2, off |-> 0],
                    [local |-> 3, off |-> 1]}

\* datetime.timestamp(iso8601.parse_date(s['submissionDate'])): the instant in
\* UTC, i.e. the local reading minus the offset.
Timestamp(date) == date.local - date.off

EmptyDict == [x \in {} |-> 0]

\* The workflows of one submission: at most one workflow per entity, listed in
\* entity order, each with its own status.
WorkflowsOf(E, st) ==
    LET ordered == IF "S1" \in E
                   THEN (IF "S2" \in E THEN <<"S1", "S2">> ELSE <<"S1">>)
                   ELSE (IF "S2" \in E THEN <<"S2">> ELSE <<>>)
    IN  [i \in 1..Len(ordered) |->
            [entityName |-> ordered[i], status |-> st[ordered[i]]]]

WorkflowLists ==
    {WorkflowsOf(E, st) : E \in SUBSET Entities, st \in [Entities -> Statuses]}

SubmissionSet ==
    [entityType : EntityTypes, submissionDate : SubmissionDates,
     workflows : WorkflowLists]

SubmissionLists == UNION {[1..n -> SubmissionSet] : n \in 0..MaxSubs}

-----------------------------------------------------------------------------
(* get_entity_status *)

\* `assert r.status_code==200` of get_submission / get_workflow_metadata
AssertStatusLenient(code) == TRUE
AssertStatus(code) == code = 200

\* `entity_id not in entity_dict or entity_dict[entity_id]['timestamp']<ts`
ReplacesLastWins(dict, entity_id, ts) == TRUE
ReplacesOnTie(dict, entity_id, ts) ==
    \/ entity_id \notin DOMAIN dict
    \/ dict[entity_id].timestamp <= ts
ReplacesOlderWins(dict, entity_id, ts) ==
    \/ entity_id \notin DOMAIN dict
    \/ dict[entity_id].timestamp > ts
Replaces(dict, entity_id, ts) ==
    \/ entity_id \notin DOMAIN dict
    \/ dict[entity_id].timestamp < ts

\* the body of `for w in r['workflows']`, folded over the list
RECURSIVE FoldWorkflows(_, _, _, _)
FoldWorkflows(dict, ws, sid, ts) ==
    IF ws = <<>> THEN dict
    ELSE LET w   == Head(ws)
             new == IF Replaces(dict, w.entityName, ts)
                    THEN [x \in DOMAIN dict \cup {w.entityName} |->
                            IF x = w.entityName
                            THEN [status |-> w.status, timestamp |-> ts,
                                  submission_id |-> sid]
                            ELSE dict[x]]
                    ELSE dict
         IN  FoldWorkflows(new, Tail(ws), sid, ts)

\* l.453-457: a submission on another entity type is skipped
SkipsSubmissionNever(s) == FALSE
SkipsSubmission(s) == s.entityType # etype

StatusIdle ==
    /\ submissions = <<>>
    /\ etype = "sample"
    /\ k = 0
    /\ entity_dict = EmptyDict
    /\ status_df = EmptyDict
    /\ fetch_failed = FALSE
    /\ pcS = "idle"

StatusInit ==
    /\ submissions \in SubmissionLists
    /\ etype \in EntityTypes
    /\ k = 0
    /\ entity_dict = EmptyDict
    /\ status_df = EmptyDict
    /\ fetch_failed = FALSE
    /\ pcS = "loop"

\* l.453-457
SkipSubmission ==
    /\ pcS = "loop"
    /\ k < Len(submissions)
    /\ SkipsSubmission(submissions[k + 1])
    /\ k' = k + 1
    /\ UNCHANGED <<submissions, etype, entity_dict, status_df, fetch_failed, pcS>>
    /\ UNCHANGED <<fetchVars, taskVars, patchVars, groupVars>>

\* l.458-472: one iteration that fetches the submission detail; the remote
\* answers with a status code
FetchSubmission ==
    /\ pcS = "loop"
    /\ k < Len(submissions)
    /\ ~SkipsSubmission(submissions[k + 1])
    /\ \E code \in {200, 500} :
        /\ fetch_failed' = (fetch_failed \/ code # 200)
        /\ IF AssertStatus(code)
           THEN /\ entity_dict' =
                     FoldWorkflows(entity_dict,
                                   IF code = 200
                                   THEN submissions[k + 1].workflows ELSE <<>>,
                                   k + 1,
                                   Timestamp(submissions[k + 1].submissionDate))
                /\ k' = k + 1
                /\ pcS' = pcS
           ELSE /\ pcS' = "raised"
                /\ UNCHANGED <<entity_dict, k>>
    /\ UNCHANGED <<submissions, etype, status_df, fetchVars, taskVars, patchVars, groupVars>>

\* l.474-477: pd.DataFrame(entity_dict).T[[...]]; selecting the columns of an
\* empty frame raises KeyError
ReturnStatus ==
    /\ pcS = "loop"
    /\ k = Len(submissions)
    /\ IF entity_dict = EmptyDict
       THEN /\ pcS' = "raised"
            /\ status_df' = status_df
       ELSE /\ pcS' = "returned"
            /\ status_df' = entity_dict
    /\ UNCHANGED <<submissions, etype, k, entity_dict, fetch_failed>>
    /\ UNCHANGED <<fetchVars, taskVars, patchVars, groupVars>>

StatusNext ==
    \/ SkipSubmission
    \/ FetchSubmission
    \/ ReturnStatus

-----------------------------------------------------------------------------
(* get_stats: the metadata fetch loop, l.678-689 *)

AllStatuses ==
    {"Succeeded", "Running", "Failed", "Aborted", "Submitted", "Queued"}

EntityOrder == <<"S1", "S2">>

\* l.678: status_df[status_df['status']=='Succeeded'], in table order
SucceededIndex(df) ==
    LET IsSucceeded(e) == df[e] = "Succeeded"
    IN  SelectSeq(EntityOrder, IsSucceeded)

\* l.686: `metadata.json()`, where metadata is what get_workflow_metadata
\* returned, i.e. the already parsed dict (l.400): a dict has no attribute
\* json, so the call raises AttributeError
DictHasJson == FALSE

FetchIdle ==
    /\ stats_status = EmptyDict
    /\ ki = 0
    /\ fetch = FALSE
    /\ metadata_dict = {}
    /\ tries = 0
    /\ last_code = 0
    /\ pcF = "idle"

FetchInit ==
    /\ stats_status \in [Entities -> AllStatuses]
    /\ ki = 0
    /\ fetch = TRUE
    /\ metadata_dict = {}
    /\ tries = 0
    /\ last_code = 0
    /\ pcF = "fetch"

\* l.682-689: one pass of `while fetch:`; any exception raised in the try
\* block is swallowed by the bare except and the pass is repeated
FetchMetadata ==
    /\ pcF = "fetch"
    /\ ki < Len(SucceededIndex(stats_status))
    /\ tries < MaxTries
    /\ \E code \in {200, 500} :
        LET returned == AssertStatus(code)
            stored   == returned /\ DictHasJson
            i        == SucceededIndex(stats_status)[ki + 1]
        IN  /\ last_code' = code
            /\ tries' = tries + 1
            /\ metadata_dict' = IF stored THEN metadata_dict \cup {i}
                                          ELSE metadata_dict
            /\ fetch' = ~stored
            /\ ki' = IF stored THEN ki + 1 ELSE ki
    /\ UNCHANGED <<stats_status, pcF, statusVars, taskVars, patchVars, groupVars>>

\* l.693-764 once the for loop is over; with no successful entity the loop
\* over the workflows does not run and `return workflow_status_df, task_dfs`
\* reads unbound locals
LeaveFetch ==
    /\ pcF = "fetch"
    /\ ki = Len(SucceededIndex(stats_status))
    /\ pcF' = IF SucceededIndex(stats_status) = <<>> THEN "raised" ELSE "tasks"
    /\ UNCHANGED <<stats_status, ki, fetch, metadata_dict, tries, last_code>>
    /\ UNCHANGED <<statusVars, taskVars, patchVars, groupVars>>

FetchNext ==
    \/ FetchMetadata
    \/ LeaveFetch

-----------------------------------------------------------------------------
(* get_stats: one task of one entity, l.716-756, and the roll-up, l.758-762 *)

\* machine type names, split at '-'
MachineTypes == {<<"n1", "standard", "8">>, <<"g1", "small">>}

\* start and end of an attempt as ISO-8601 instants (local reading, offset)
AttemptTimes ==
    {[start |-> [local |-> 0, off |-> 0], end |-> [local |-> 1800, off |-> 0]],
     [start |-> [local |-> 5400, off |-> 3600], end |-> [local |-> 5400, off |-> 0]]}

\* shard index of an attempt; -1 stands for an attempt without the key
ShardChoices == {-1, 0, 1}

AttemptChoices ==
    [shard : ShardChoices, time : AttemptTimes,
     preemptible : BOOLEAN, hit : BOOLEAN]

\* the i-th attempt of the list as the metadata JSON gives it; all attempts of
\* a task run on the machine type m the task declares
MkAttempt(i, c, m) ==
    IF c.shard = -1
    THEN [jobId |-> i, start |-> c.time.start, end |-> c.time.end,
          preemptible |-> c.preemptible, callCaching |-> [hit |-> c.hit],
          jes |-> [machineType |-> <<"us-central1-b", m>>],
          executionEvents |-> <<>>]
    ELSE [jobId |-> i, start |-> c.time.start, end |-> c.time.end,
          preemptible |-> c.preemptible, callCaching |-> [hit |-> c.hit],
          jes |-> [machineType |-> <<"us-central1-b", m>>],
          executionEvents |-> <<>>, shardIndex |-> c.shard]

\* the attempt list built from n choices
AttemptList(n, cs, m) == [i \in 1..n |-> MkAttempt(i, cs[i], m)]

\* an attempt with every field drawn: c gives shard, time, preemptible, hit,
\* machine and events
MkAttemptWith(i, c) ==
    IF c.shard = -1
    THEN [jobId |-> i, start |-> c.time.start, end |-> c.time.end,
          preemptible |-> c.preemptible, callCaching |-> [hit |-> c.hit],
          jes |-> [machineType |-> <<"us-central1-b", c.machine>>],
          executionEvents |-> c.events]
    ELSE [jobId |-> i, start |-> c.time.start, end |-> c.time.end,
          preemptible |-> c.preemptible, callCaching |-> [hit |-> c.hit],
          jes |-> [machineType |-> <<"us-central1-b", c.machine>>],
          executionEvents |-> c.events, shardIndex |-> c.shard]

\* attempts of one and of two hours
QuotaAttemptTimes ==
    {[start |-> [local |-> 0, off |-> 0], end |-> [local |-> 3600, off |-> 0]],
     [start |-> [local |-> 7200, off |-> 3600], end |-> [local |-> 10800, off |-> 0]]}

\* executionEvents of an attempt: none, half an hour of 'waiting for quota',
\* or a quarter of an hour of something else
EventChoices ==
    {<<>>,
     <<[description |-> "waiting for quota",
        startTime |-> [local |-> 0, off |-> 0],
        endTime |-> [local |-> 1800, off |-> 0]]>>,
     <<[description |-> "running",
        startTime |-> [local |-> 4500, off |-> 3600],
        endTime |-> [local |-> 1800, off |-> 0]]>>}

QuotaChoices ==
    [shard : ShardChoices, time : QuotaAttemptTimes, events : EventChoices]

\* attempts of half an hour and of an hour and a quarter
CostAttemptTimes ==
    {[start |-> [local |-> 0, off |-> 0], end |-> [local |-> 1800, off |-> 0]],
     [start |-> [local |-> 3600, off |-> 3600], end |-> [local |-> 4500, off |-> 0]]}

CostChoices ==
    [time : CostAttemptTimes, preemptible : BOOLEAN, machine : MachineTypes,
     events : {e \in EventChoices :
                 \A n \in 1..Len(e) : e[n].description = "waiting for quota"}]

\* convert_time(x): the ISO string as seconds since the epoch
ConvertTime(x) == Timestamp(x)

\* workflow_time(w): seconds between the start and the end of w
WorkflowTime(w) == ConvertTime(w.end) - ConvertTime(w.start)

\* `/3600`: seconds to hours, kept in hundredths of an hour
Hours(sec) == (sec * 100) \div 3600

\* get_vm_cost(machine_type, preemptible): hourly rate in cents
GetVmCost(m, p) ==
    IF m = <<"n1", "standard", "8">> THEN (IF p THEN 5 ELSE 38)
                                     ELSE (IF p THEN 1 ELSE 3)

RECURSIVE SumSeq(_)
SumSeq(s) == IF s = <<>> THEN 0 ELSE Head(s) + SumSeq(Tail(s))

RECURSIVE MaxSeq(_)
MaxSeq(s) == IF Len(s) = 1 THEN s[1]
             ELSE LET m == MaxSeq(Tail(s)) IN IF s[1] > m THEN s[1] ELSE m

Range(s) == {s[i] : i \in 1..Len(s)}

\* an empty dict that remembers insertion order
EmptySuccesses == [keys |-> <<>>, val |-> EmptyDict]

\* successes.values()
SuccessValues(succ) == [i \in 1..Len(succ.keys) |-> succ.val[succ.keys[i]]]

\* l.726: successes[j['shardIndex']] = j
AssignShardKeepFirst(succ, idx, j) ==
    IF idx \in Range(succ.keys) THEN succ
    ELSE [keys |-> Append(succ.keys, idx),
          val  |-> [x \in DOMAIN succ.val \cup {idx} |->
                        IF x = idx THEN j ELSE succ.val[x]]]
AssignShard(succ, idx, j) ==
    [keys |-> IF idx \in Range(succ.keys) THEN succ.keys
                                         ELSE Append(succ.keys, idx),
     val  |-> [x \in DOMAIN succ.val \cup {idx} |->
                  IF x = idx THEN j ELSE succ.val[x]]]

\* l.722-726: the loop over the attempts of a scattered task; an attempt
\* without shardIndex raises KeyError
RECURSIVE FoldShards(_, _, _)
FoldShards(succ, pre, rest) ==
    IF rest = <<>>
    THEN [successes |-> succ, preemptions |-> pre, raised |-> FALSE]
    ELSE LET j == Head(rest) IN
         IF "shardIndex" \notin DOMAIN j
         THEN [successes |-> succ, preemptions |-> pre, raised |-> TRUE]
         ELSE FoldShards(AssignShard(succ, j.shardIndex, j),
                         IF j.shardIndex \in Range(succ.keys)
                         THEN Append(pre, j) ELSE pre,
                         Tail(rest))

\* l.728-730: a task that is not scattered
ResolveUnshardedFirst(attempts) ==
    [successes   |-> AssignShard(EmptySuccesses, 0, attempts[1]),
     preemptions |-> SubSeq(attempts, 2, Len(attempts)),
     raised      |-> FALSE]
ResolveUnsharded(attempts) ==
    [successes   |-> AssignShard(EmptySuccesses, 0, attempts[Len(attempts)]),
     preemptions |-> SubSeq(attempts, 1, Len(attempts) - 1),
     raised      |-> FALSE]

\* l.720: the first attempt decides whether the task is scattered
IsScatter(attempts) == "shardIndex" \in DOMAIN attempts[1]

\* l.735-736: hours the accepted attempts spent waiting for quota
QuotaTimeAnyEvent(succ) ==
    LET vals == SuccessValues(succ)
        OfAttempt(m) ==
            SumSeq([n \in 1..Len(m.executionEvents) |->
                Hours(ConvertTime(m.executionEvents[n].endTime)
                        - ConvertTime(m.executionEvents[n].startTime))])
    IN  SumSeq([n \in 1..Len(vals) |-> OfAttempt(vals[n])])
QuotaTime(succ) ==
    LET vals == SuccessValues(succ)
        OfAttempt(m) ==
            LET IsQuota(e) == e.description = "waiting for quota"
                q == SelectSeq(m.executionEvents, IsQuota)
            IN  SumSeq([n \in 1..Len(q) |->
                    Hours(ConvertTime(q[n].endTime) - ConvertTime(q[n].startTime))])
    IN  SumSeq([n \in 1..Len(vals) |-> OfAttempt(vals[n])])

\* l.739: [workflow_time(t_attempt)/3600 for t_attempt in ...['calls'][t]]
TotalTimesButFirst(attempts) ==
    [n \in 1..Len(attempts) |->
        IF n = 1 /\ Len(attempts) > 1 THEN 0
        ELSE Hours(WorkflowTime(attempts[n]))]
TotalTimes(attempts) ==
    [n \in 1..Len(attempts) |-> Hours(WorkflowTime(attempts[n]))]

\* l.754: np.sum([get_vm_cost(m,p)*h for h,m,p in zip(total_time_h,
\* machine_types, was_preemptible)])
EstCostLastMachine(total_time_h, machine_types, was_preemptible) ==
    SumSeq([n \in 1..Len(total_time_h) |->
        GetVmCost(machine_types[Len(machine_types)], was_preemptible[n])
            * total_time_h[n]])
EstCost(total_time_h, machine_types, was_preemptible) ==
    SumSeq([n \in 1..Len(total_time_h) |->
        GetVmCost(machine_types[n], was_preemptible[n]) * total_time_h[n]])

\* l.101: the workspace time zone, 'America/New_York' by default, as seconds
\* east of UTC (standard time)
TimezoneOffset == 0 - 18000

\* l.749: parse_date(start).astimezone(timezone).strftime('%H:%M'), as minutes
\* since midnight in the workspace time zone
StartTime(j) == ((Timestamp(j.start) + TimezoneOffset) % 86400) \div 60

\* l.742: np.any(['hit' in j['callCaching'] and j['callCaching']['hit'] ...])
AnyCacheHitNever(attempts) == FALSE
AnyCacheHit(attempts) ==
    \E n \in 1..Len(attempts) :
        "hit" \in DOMAIN attempts[n].callCaching /\ attempts[n].callCaching.hit

\* l.746: np.max([workflow_time(t_attempt) for t_attempt in preemptions])/3600;
\* the cell is assigned only when there are preemptions
MaxPreemptTimeOrZero(pre) ==
    IF pre = <<>> THEN <<0>>
    ELSE <<Hours(MaxSeq([n \in 1..Len(pre) |-> WorkflowTime(pre[n])]))>>
MaxPreemptTime(pre) ==
    IF pre = <<>> THEN <<>>
    ELSE <<Hours(MaxSeq([n \in 1..Len(pre) |-> WorkflowTime(pre[n])]))>>

\* l.751: j['jes']['machineType'].rsplit('/')[-1]
MachineTypeOf(j) == j.jes.machineType[Len(j.jes.machineType)]

\* int() of a decimal string
IntOf(str) == CASE str = "1" -> 1 [] str = "2" -> 2 [] str = "4" -> 4
                [] str = "8" -> 8 [] str = "16" -> 16

\* l.761: core count of a machine_type cell (a null cell counts one core)
Cores(cell) ==
    IF cell = <<>> THEN 1
    ELSE LET name == cell[1] IN
         IF \E n \in 2..Len(name) : name[n] \in {"small", "micro"}
         THEN 1
         ELSE IntOf(name[Len(name)])

\* a row of task_dfs / workflow_status_df; <<>> is a cell that was never set
EmptyRow ==
    [time_h |-> <<>>, total_time_h |-> <<>>, max_preempt_time_h |-> <<>>,
     machine_type |-> <<>>, attempts |-> <<>>, start_time |-> <<>>,
     est_cost |-> <<>>, job_ids |-> <<>>]

EmptyWf == [est_cost |-> <<>>, cpu_hours |-> <<>>]

TaskIdle ==
    /\ calls = <<>>
    /\ successes = EmptySuccesses
    /\ preemptions = <<>>
    /\ row = EmptyRow
    /\ wf = EmptyWf
    /\ pcT = "idle"

TaskInit ==
    /\ \E n \in 1..MaxAttempts, m \in MachineTypes :
          \E cs \in [1..n -> AttemptChoices] : calls = AttemptList(n, cs, m)
    /\ successes = EmptySuccesses
    /\ preemptions = <<>>
    /\ row = EmptyRow
    /\ wf = EmptyWf
    /\ pcT = "shards"

\* attempts that differ in shard index, duration and execution events; all are
\* preemptible, without cache hit, on one machine type
QuotaInit ==
    /\ \E n \in 1..MaxAttempts :
          \E cs \in [1..n -> QuotaChoices] :
              calls = [i \in 1..n |->
                  MkAttemptWith(i, [shard |-> cs[i].shard, time |-> cs[i].time,
                                    preemptible |-> TRUE, hit |-> FALSE,
                                    machine |-> <<"n1", "standard", "8">>,
                                    events |-> cs[i].events])]
    /\ successes = EmptySuccesses
    /\ preemptions = <<>>
    /\ row = EmptyRow
    /\ wf = EmptyWf
    /\ pcT = "shards"

\* attempts that differ in duration, preemptible flag, machine type and quota
\* wait; none is a cache hit; a scattered task has all its attempts on shard 0
CostInit ==
    /\ \E n \in 1..MaxAttempts, scatter \in BOOLEAN :
          \E cs \in [1..n -> CostChoices] :
              calls = [i \in 1..n |->
                  MkAttemptWith(i, [shard |-> IF scatter THEN 0 ELSE -1,
                                    time |-> cs[i].time,
                                    preemptible |-> cs[i].preemptible,
                                    hit |-> FALSE,
                                    machine |-> cs[i].machine,
                                    events |-> cs[i].events])]
    /\ successes = EmptySuccesses
    /\ preemptions = <<>>
    /\ row = EmptyRow
    /\ wf = EmptyWf
    /\ pcT = "shards"

\* l.717-730: successes and preemptions of one attempt list
Resolve(attempts) ==
    IF IsScatter(attempts) THEN FoldShards(EmptySuccesses, <<>>, attempts)
                           ELSE ResolveUnsharded(attempts)

\* l.732-756: the cells of one task for one entity, written into the row r; the
\* assert at l.745 raises after the two time cells were written
StatsRow(attempts, succ, pre, r) ==
    LET vals         == SuccessValues(succ)
        quota_time   == QuotaTime(succ)
        total_time_h == TotalTimes(attempts)
        timed == [r EXCEPT
                    !.time_h = <<SumSeq([n \in 1..Len(vals) |->
                                    Hours(WorkflowTime(vals[n]))]) - quota_time>>,
                    !.total_time_h = <<SumSeq(total_time_h) - quota_time>>]
        was_preemptible == [n \in 1..Len(attempts) |-> attempts[n].preemptible]
        machine_types   == [n \in 1..Len(attempts) |-> MachineTypeOf(attempts[n])]
    IN  IF AnyCacheHit(attempts)
        THEN [row |-> timed, raised |-> FALSE]
        ELSE IF Len(pre) > 0 /\ ~was_preemptible[1]
        THEN [row |-> timed, raised |-> TRUE]
        ELSE [row |-> [timed EXCEPT
                    !.max_preempt_time_h = MaxPreemptTime(pre),
                    !.attempts = <<Len(attempts)>>,
                    !.start_time = <<StartTime(attempts[1])>>,
                    !.machine_type = <<machine_types[Len(attempts)]>>,
                    !.est_cost = <<EstCost(total_time_h, machine_types,
                                           was_preemptible)>>,
                    !.job_ids = <<[n \in 1..Len(vals) |-> vals[n].jobId]>>],
              raised |-> FALSE]

\* l.759-761: the workflow-level sums over the rows of the tasks (sum skips
\* null cells)
RollupOf(rows) ==
    [est_cost  |-> <<SumSeq([n \in 1..Len(rows) |->
                        IF rows[n].est_cost = <<>> THEN 0
                        ELSE rows[n].est_cost[1]])>>,
     cpu_hours |-> <<SumSeq([n \in 1..Len(rows) |->
                        rows[n].total_time_h[1] * Cores(rows[n].machine_type)])>>]

\* l.717-730
ResolveShards ==
    /\ pcT = "shards"
    /\ LET r == Resolve(calls)
       IN  /\ successes' = r.successes
           /\ preemptions' = r.preemptions
           /\ pcT' = IF r.raised THEN "raised" ELSE "stats"
    /\ UNCHANGED <<calls, row, wf, statusVars, fetchVars, patchVars, groupVars>>

\* l.732-756
TaskStats ==
    /\ pcT = "stats"
    /\ LET r == StatsRow(calls, successes, preemptions, row)
       IN  /\ row' = r.row
           /\ pcT' = IF r.raised THEN "raised" ELSE "rollup"
    /\ UNCHANGED <<calls, successes, preemptions, wf>>
    /\ UNCHANGED <<statusVars, fetchVars, patchVars, groupVars>>

\* l.759-761 for the one task
Rollup ==
    /\ pcT = "rollup"
    /\ wf' = RollupOf(<<row>>)
    /\ pcT' = "done"
    /\ UNCHANGED <<calls, successes, preemptions, row>>
    /\ UNCHANGED <<statusVars, fetchVars, patchVars, groupVars>>

TaskNext ==
    \/ ResolveShards
    \/ TaskStats
    \/ Rollup
-----------------------------------------------------------------------------
(* patch_attributes, l.497-580 *)

Null == "null"
Old  == "gs://old"
New  == "gs://new"

Last(s) == s[Len(s)]

\* r['outputs'] of the method configuration: workflow output (split at '.')
\* -> entity expression (split at 'this.')
ConfigOutputs ==
    <<[key |-> <<"wf", "VariantCall", "output_vcf">>, val |-> <<"", "vcf_path">>],
      [key |-> <<"wf", "Align", "output_bam">>, val |-> <<"", "bam_path">>]>>

\* l.507: {i.split('.')[-1]: j.split('this.')[-1] for i,j in r['outputs'].items()}
OutputMap ==
    [name \in {Last(ConfigOutputs[i].key) : i \in 1..Len(ConfigOutputs)} |->
        Last((CHOOSE o \in Range(ConfigOutputs) : Last(o.key) = name).val)]

\* l.508: columns = list(output_map.values())
Columns == {OutputMap[name] : name \in DOMAIN OutputMap}

\* an attempt of a task, with or without an outputs mapping
NoOut == [executionStatus |-> "Failed"]
Out(keys) ==
    [executionStatus |-> "Done",
     outputs |-> [i \in 1..Len(keys) |-> [key |-> keys[i], value |-> New]]]

\* the calls of a workflow: task name (split at '.') -> attempts, in order
CallsChoices ==
    {<<[task |-> <<"wf", "VariantCall">>, attempts |-> vc],
       [task |-> <<"wf", "Align">>, attempts |-> al]>> :
        vc \in {<<NoOut>>, <<Out(<<"output_vcf">>)>>,
                <<Out(<<"output_vcf">>), NoOut>>,
                <<Out(<<"output_vcf", "log">>)>>},
        al \in {<<NoOut>>, <<Out(<<"output_bam">>)>>}}

\* the top-level outputs of a workflow: none, those of a finished run, or
\* those of a finished run that also declares an output the configuration does
\* not map
TopOutputsChoices ==
    {<<>>,
     <<[key |-> <<"wf", "VariantCall", "output_vcf">>, value |-> New],
       [key |-> <<"wf", "Align", "output_bam">>, value |-> New]>>,
     <<[key |-> <<"wf", "VariantCall", "output_vcf">>, value |-> New],
       [key |-> <<"wf", "VariantCall", "log">>, value |-> New]>>}

MetadataSet == [outputs : TopOutputsChoices, calls : CallsChoices]

\* get_entity_status as patch_attributes sees it: the returned table
LatestTables == UNION {[D -> Statuses] : D \in SUBSET Entities}

\* `not dry_run`, l.537, l.547, l.576
WritesAllowedAlways(dry) == TRUE
WritesAllowed(dry) == ~dry

\* the type of `attr` at l.538 and l.548: a dict comprehension
AttrsKindFrame == "DataFrame"
AttrsKind == "dict"

\* update_sample_attributes -> update_entity_attributes(etype, attrs), l.1101-1129:
\* a DataFrame or a Series is sent as one batch update that the store applies
\* when it answers 204; anything else raises ValueError before any request
UpdateEntityAttributes(st, kind, ename, attr, code) ==
    IF kind \notin {"DataFrame", "Series"}
    THEN [raised |-> TRUE, store |-> st]
    ELSE IF code = 204
    THEN [raised |-> FALSE,
          store  |-> [st EXCEPT ![ename] =
                        [c \in Columns |->
                            IF c \in DOMAIN attr THEN attr[c] ELSE st[ename][c]]]]
    ELSE [raised |-> FALSE, store |-> st]

\* l.548: {output_map[i]: j for i,j in outputs.items()}
TaskAttr(outs) ==
    [c \in {OutputMap[outs[i].key] : i \in 1..Len(outs)} |->
        (CHOOSE o \in Range(outs) : OutputMap[o.key] = c).value]

\* l.538: {output_map[k.split('.')[-1]]: t for k,t in metadata['outputs'].items()}
TopAttr(outs) ==
    [c \in {OutputMap[Last(outs[i].key)] : i \in 1..Len(outs)} |->
        (CHOOSE o \in Range(outs) : OutputMap[Last(o.key)] = c).value]

\* task_counts[name] += 1 on a defaultdict(int)
Increment(counts, name) ==
    [x \in DOMAIN counts \cup {name} |->
        IF x = name
        THEN (IF name \in DOMAIN counts THEN counts[name] + 1 ELSE 1)
        ELSE counts[x]]

\* l.542: metadata['calls'][task][-1]
FinalAttemptFirst(attempts) == attempts[1]
FinalAttempt(attempts) == attempts[Len(attempts)]

\* l.541-550: the walk over the tasks of one sample; acc carries the store, the
\* counters and the number of update calls; the walk stops where a call raises
RECURSIVE WalkTasks(_, _, _, _, _, _)
WalkTasks(ts, e, dfrow, dry, wcode, acc) ==
    IF ts = <<>> THEN acc
    ELSE
    LET final == FinalAttempt(Head(ts).attempts)
        name  == Last(Head(ts).task)
    IN  IF "outputs" \notin DOMAIN final
        THEN WalkTasks(Tail(ts), e, dfrow, dry, wcode, acc)
        ELSE IF ~(\A i \in 1..Len(final.outputs) :
                    final.outputs[i].key \in DOMAIN OutputMap)
        THEN WalkTasks(Tail(ts), e, dfrow, dry, wcode, acc)
        ELSE IF ~(\E i \in 1..Len(final.outputs) :
                    dfrow[OutputMap[final.outputs[i].key]] = Null)
        THEN WalkTasks(Tail(ts), e, dfrow, dry, wcode, acc)
        ELSE IF WritesAllowed(dry)
        THEN LET u == UpdateEntityAttributes(acc.store, AttrsKind, e,
                                             TaskAttr(final.outputs), wcode)
             IN  IF u.raised
                 THEN [acc EXCEPT !.raised = TRUE, !.updates = @ + 1]
                 ELSE WalkTasks(Tail(ts), e, dfrow, dry, wcode,
                                [acc EXCEPT !.store = u.store,
                                            !.updates = @ + 1,
                                            !.counts = Increment(@, name)])
        ELSE WalkTasks(Tail(ts), e, dfrow, dry, wcode,
                       [acc EXCEPT !.counts = Increment(@, name)])

\* l.536-550: the try block for one sample, after the status lookup
TrySample(md, e, dfrow, dry, wcode, acc) ==
    IF md.outputs # <<>> /\ WritesAllowed(dry)
    THEN IF \E i \in 1..Len(md.outputs) :
                Last(md.outputs[i].key) \notin DOMAIN OutputMap
         THEN [acc EXCEPT !.raised = TRUE]
         ELSE LET u == UpdateEntityAttributes(acc.store, AttrsKind, e,
                                              TopAttr(md.outputs), wcode)
              IN  [acc EXCEPT !.raised = u.raised, !.store = u.store,
                              !.updates = @ + 1]
    ELSE WalkTasks(md.calls, e, dfrow, dry, wcode, acc)

\* l.551-553: the handler prints `metadata.json()`; metadata is unbound or the
\* dict of this or an earlier sample, so the handler itself raises
HandlerRaises == TRUE

\* the expected columns some entity has a value for
ColumnsPresent(st) == {c \in Columns : \E e \in Entities : st[e][c] # Null}

HasNull(r) == \E c \in Columns : r[c] = Null

\* l.575-578: the body of the loop over the incomplete sample sets
TrySet(md, e, dry, wcode, acc) ==
    IF md.outputs # <<>> /\ WritesAllowed(dry)
    THEN IF \E i \in 1..Len(md.outputs) :
                Last(md.outputs[i].key) \notin DOMAIN OutputMap
         THEN [acc EXCEPT !.raised = TRUE]
         ELSE LET u == UpdateEntityAttributes(acc.store, AttrsKind, e,
                                              TopAttr(md.outputs), wcode)
              IN  [acc EXCEPT !.raised = u.raised, !.store = u.store,
                              !.updates = @ + 1]
    ELSE acc

PatchIdle ==
    /\ dry_run = FALSE
    /\ entity = "sample"
    /\ store = EmptyDict
    /\ store0 = EmptyDict
    /\ latest = EmptyDict
    /\ metadata = EmptyDict
    /\ incomplete = <<>>
    /\ incomplete_df = EmptyDict
    /\ passes = 0
    /\ task_counts = EmptyDict
    /\ reported = <<>>
    /\ run = 0
    /\ update_calls = 0
    /\ try_failed = FALSE
    /\ fetched = {}
    /\ pcP = "idle"

PatchInit ==
    /\ dry_run \in BOOLEAN
    /\ entity \in EntityTypes
    /\ store \in [Entities -> [Columns -> {Null, Old}]]
    /\ store0 = store
    /\ latest \in LatestTables
    /\ metadata \in [Entities -> MetadataSet]
    /\ incomplete = <<>>
    /\ incomplete_df = EmptyDict
    /\ passes = 0
    /\ task_counts = EmptyDict
    /\ reported = <<>>
    /\ run = 1
    /\ update_calls = 0
    /\ try_failed = FALSE
    /\ fetched = {}
    /\ pcP = "start"

\* l.510-525 (samples) and l.558-572 (sample sets): the table of incomplete
\* entities. Selecting labels that are missing raises KeyError; where the pandas
\* release decides (only some of the labels missing in a .loc), both outcomes
\* are taken.
PatchStart ==
    /\ pcP = "start"
    /\ \E strict \in BOOLEAN :
        LET present == ColumnsPresent(store)
            partial == present # {} /\ present # Columns
            WithNull(e) == HasNull(store[e])
            InStatus(e) == e \in DOMAIN latest
            StatusWithNull(e) == InStatus(e) /\ WithNull(e)
            idx == IF entity = "sample"
                   THEN (IF present = {} THEN EntityOrder
                                         ELSE SelectSeq(EntityOrder, WithNull))
                   ELSE SelectSeq(EntityOrder, StatusWithNull)
            found == {e \in Range(idx) : InStatus(e)}
            raises ==
                \/ DOMAIN latest = {}
                \/ IF entity = "sample"
                   THEN \/ partial
                        \/ idx # <<>> /\ found = {}
                        \/ found # Range(idx) /\ strict
                   ELSE \/ present = {}
                        \/ partial /\ strict
            errors == \E e \in found : latest[e] = "Succeeded"
        IN  IF raises
            THEN /\ pcP' = "raised"
                 /\ UNCHANGED <<incomplete, incomplete_df>>
            ELSE /\ incomplete' = idx
                 /\ incomplete_df' =
                        [e \in Range(idx) |->
                            IF entity = "sample" /\ present = {}
                            THEN [c \in Columns |-> Null] ELSE store[e]]
                 /\ pcP' = IF entity = "sample" THEN "samples"
                           ELSE IF errors THEN "sets" ELSE "finish"
    /\ UNCHANGED <<dry_run, entity, store, store0, latest, metadata, passes,
                   task_counts, reported, run, update_calls, try_failed, fetched>>
    /\ UNCHANGED <<statusVars, fetchVars, taskVars, groupVars>>

\* l.532-553: one pass of the loop over the incomplete samples
PatchSample ==
    /\ pcP = "samples"
    /\ passes < Len(incomplete)
    /\ \E code \in {200, 500}, wcode \in {204, 500} :
        LET e    == incomplete[passes + 1]
            acc0 == [raised |-> FALSE, store |-> store,
                     counts |-> task_counts, updates |-> update_calls]
            r    == IF e \notin DOMAIN latest \/ ~AssertStatus(code)
                    THEN [acc0 EXCEPT !.raised = TRUE]
                    ELSE TrySample(metadata[e], e, incomplete_df[e], dry_run,
                                   wcode, acc0)
        IN  /\ store' = r.store
            /\ task_counts' = r.counts
            /\ update_calls' = r.updates
            /\ try_failed' = (try_failed \/ r.raised)
            /\ fetched' = IF e \in DOMAIN latest /\ code = 200
                          THEN fetched \cup {e} ELSE fetched
            /\ passes' = passes + 1
            /\ pcP' = IF r.raised /\ HandlerRaises THEN "raised" ELSE pcP
    /\ UNCHANGED <<dry_run, entity, store0, latest, metadata, incomplete,
                   incomplete_df, reported, run>>
    /\ UNCHANGED <<statusVars, fetchVars, taskVars, groupVars>>

\* l.573-578: one pass of the loop over the incomplete sample sets; nothing
\* catches what the pass raises
PatchSet ==
    /\ pcP = "sets"
    /\ passes < Len(incomplete)
    /\ \E code \in {200, 500}, wcode \in {204, 500} :
        LET e    == incomplete[passes + 1]
            acc0 == [raised |-> FALSE, store |-> store,
                     counts |-> task_counts, updates |-> update_calls]
            r    == IF ~AssertStatus(code)
                    THEN [acc0 EXCEPT !.raised = TRUE]
                    ELSE TrySet(metadata[e], e, dry_run, wcode, acc0)
        IN  /\ store' = r.store
            /\ update_calls' = r.updates
            /\ fetched' = IF code = 200 THEN fetched \cup {e} ELSE fetched
            /\ passes' = passes + 1
            /\ pcP' = IF r.raised THEN "raised" ELSE pcP
    /\ UNCHANGED <<dry_run, entity, store0, latest, metadata, incomplete,
                   incomplete_df, task_counts, reported, run, try_failed>>
    /\ UNCHANGED <<statusVars, fetchVars, taskVars, groupVars>>

\* l.554-556 and l.580: the per-task counts are printed and the call returns
PatchFinish ==
    /\ \/ pcP \in {"samples", "sets"} /\ passes = Len(incomplete)
       \/ pcP = "finish"
    /\ reported' = Append(reported, task_counts)
    /\ pcP' = "done"
    /\ UNCHANGED <<dry_run, entity, store, store0, latest, metadata, incomplete,
                   incomplete_df, passes, task_counts, run, update_calls, try_failed,
                   fetched>>
    /\ UNCHANGED <<statusVars, fetchVars, taskVars, groupVars>>

\* the caller runs patch_attributes once more in dry-run mode
PatchAgain ==
    /\ pcP = "done"
    /\ dry_run
    /\ run < MaxRuns
    /\ run' = run + 1
    /\ incomplete' = <<>>
    /\ incomplete_df' = EmptyDict
    /\ passes' = 0
    /\ task_counts' = EmptyDict
    /\ pcP' = "start"
    /\ UNCHANGED <<dry_run, entity, store, store0, latest, metadata, reported,
                   update_calls, try_failed, fetched>>
    /\ UNCHANGED <<statusVars, fetchVars, taskVars, groupVars>>

PatchNext ==
    \/ PatchStart
    \/ PatchSample
    \/ PatchSet
    \/ PatchFinish
    \/ PatchAgain

-----------------------------------------------------------------------------
(* get_stats: the loop over the workflow names, l.693-764 *)

\* np.unique(workflows): the workflow names in sorted order
WorkflowNames == <<"wfA", "wfB">>

\* np.sort of the task keys: the task names in sorted order
TaskOrder == <<(<<"wf", "Align">>), (<<"wf", "VariantCall">>)>>

\* the attempt of CostAttemptTimes that lasts sec seconds
TimeOf(sec) ==
    CHOOSE t \in CostAttemptTimes : Timestamp(t.end) - Timestamp(t.start) = sec

\* an attempt of a task that is not scattered and has no execution events
PlainAttempt(i, sec, p, hit, m) ==
    MkAttemptWith(i, [shard |-> -1, time |-> TimeOf(sec), preemptible |-> p,
                      hit |-> hit, machine |-> m, events |-> <<>>])

\* the attempt lists a task is drawn from: one attempt on 8 cores; a retry that
\* ends on a small machine; a retry that ends on 8 cores; a cache hit
GroupAttemptLists ==
    {<<PlainAttempt(1, 4500, FALSE, FALSE, <<"n1", "standard", "8">>)>>,
     <<PlainAttempt(1, 1800, TRUE, FALSE, <<"n1", "standard", "8">>),
       PlainAttempt(2, 4500, TRUE, FALSE, <<"g1", "small">>)>>,
     <<PlainAttempt(1, 1800, TRUE, FALSE, <<"g1", "small">>),
       PlainAttempt(2, 1800, FALSE, FALSE, <<"n1", "standard", "8">>)>>,
     <<PlainAttempt(1, 1800, FALSE, TRUE, <<"n1", "standard", "8">>)>>}

\* metadata['calls']: task name -> attempt list, for at least one task
GroupCalls ==
    UNION {[D -> GroupAttemptLists] :
              D \in (SUBSET {TaskOrder[n] : n \in 1..Len(TaskOrder)}) \ {{}}}

\* the metadata of one workflow
MetadataTrees ==
    [workflowName : {WorkflowNames[n] : n \in 1..Len(WorkflowNames)},
     start : {[local |-> 0, off |-> 0]},
     end   : {[local |-> 7200, off |-> 0]},
     calls : GroupCalls]

\* the index of the table: the entities of E in table order
IndexOf(E) == LET In(i) == i \in E IN SelectSeq(EntityOrder, In)

GroupIdle ==
    /\ trees = EmptyDict
    /\ w_todo = <<>>
    /\ w_done = <<>>
    /\ workflow_status_df = EmptyDict
    /\ task_dfs = EmptyDict
    /\ pcG = "idle"

\* l.693-698: metadata_dict holds a tree for every Succeeded entity
GroupInit ==
    /\ \E E \in {{}, {"S1"}, {"S1", "S2"}} : trees \in [E -> MetadataTrees]
    /\ LET Used(w) == \E i \in DOMAIN trees : trees[i].workflowName = w
       IN  w_todo = SelectSeq(WorkflowNames, Used)
    /\ w_done = <<>>
    /\ workflow_status_df = EmptyDict
    /\ task_dfs = EmptyDict
    /\ pcG = "groups"

\* l.716-756 for one task t of one entity i
RowFor(i, t) ==
    LET r == Resolve(trees[i].calls[t])
    IN  IF r.raised THEN [row |-> EmptyRow, raised |-> TRUE]
        ELSE StatsRow(trees[i].calls[t], r.successes, r.preemptions, EmptyRow)

\* l.699-762: one pass of `for w in np.unique(workflows)`; the tables of the
\* pass are assigned to the same names as those of the pass before
ProcessGroup ==
    /\ pcG = "groups"
    /\ w_todo # <<>>
    /\ LET w       == Head(w_todo)
           Member(i) == i \in DOMAIN trees /\ trees[i].workflowName = w
           members == SelectSeq(EntityOrder, Member)
           InFirst(t) == t \in DOMAIN trees[members[1]].calls
           tasks   == SelectSeq(TaskOrder, InFirst)
           missing == \E n \in 1..Len(tasks), m \in 1..Len(members) :
                          tasks[n] \notin DOMAIN trees[members[m]].calls
           raises  == IF missing THEN TRUE
                      ELSE \E n \in 1..Len(tasks), m \in 1..Len(members) :
                              RowFor(members[m], tasks[n]).raised
       IN  IF raises
           THEN /\ pcG' = "raised"
                /\ UNCHANGED <<w_todo, w_done, workflow_status_df, task_dfs>>
           ELSE /\ task_dfs' =
                     [name \in {Last(tasks[n]) : n \in 1..Len(tasks)} |->
                        [i \in Range(members) |->
                            RowFor(i, CHOOSE t \in Range(tasks) :
                                          Last(t) = name).row]]
                /\ workflow_status_df' =
                     [i \in Range(members) |->
                        LET roll == RollupOf([n \in 1..Len(tasks) |->
                                                RowFor(i, tasks[n]).row])
                        IN  [est_cost   |-> roll.est_cost,
                             time_h     |-> <<Hours(WorkflowTime(trees[i]))>>,
                             cpu_hours  |-> roll.cpu_hours,
                             start_time |-> <<StartTime(trees[i])>>]]
                /\ w_todo' = Tail(w_todo)
                /\ w_done' = Append(w_done, w)
                /\ pcG' = pcG
    /\ UNCHANGED trees
    /\ UNCHANGED <<statusVars, fetchVars, taskVars, patchVars>>

\* l.764: `return workflow_status_df, task_dfs`; the names are unbound when the
\* loop has made no pass
ReturnStats ==
    /\ pcG = "groups"
    /\ w_todo = <<>>
    /\ pcG' = IF w_done = <<>> THEN "raised" ELSE "returned"
    /\ UNCHANGED <<trees, w_todo, w_done, workflow_status_df, task_dfs>>
    /\ UNCHANGED <<statusVars, fetchVars, taskVars, patchVars>>

GroupNext ==
    \/ ProcessGroup
    \/ ReturnStats

-----------------------------------------------------------------------------
(* Specifications *)

\* get_entity_status on a remote submission list
InitStatus == StatusInit /\ FetchIdle /\ TaskIdle /\ PatchIdle /\ GroupIdle
Spec == InitStatus
        /\ [][StatusNext]_vars

\* the metadata fetch loop of get_stats
InitFetch == FetchInit /\ StatusIdle /\ TaskIdle /\ PatchIdle /\ GroupIdle
SpecFetch == InitFetch
             /\ [][FetchNext]_vars

\* the per-task block and the workflow roll-up of get_stats
InitStats == TaskInit /\ StatusIdle /\ FetchIdle /\ PatchIdle /\ GroupIdle
SpecStats == InitStats
             /\ [][TaskNext]_vars

\* the per-task block of get_stats on attempts with execution events
InitQuota == QuotaInit /\ StatusIdle /\ FetchIdle /\ PatchIdle /\ GroupIdle
SpecQuota == InitQuota
             /\ [][TaskNext]_vars

\* the per-task block of get_stats on attempts with their own machine types
InitCost == CostInit /\ StatusIdle /\ FetchIdle /\ PatchIdle /\ GroupIdle
SpecCost == InitCost
            /\ [][TaskNext]_vars

\* the loop of get_stats over the workflow names and its return
InitGroups == GroupInit /\ StatusIdle /\ FetchIdle /\ TaskIdle /\ PatchIdle
SpecGroups == InitGroups
              /\ [][GroupNext]_vars

\* patch_attributes on a remote workspace, run again when it was a dry run
InitPatch == PatchInit /\ StatusIdle /\ FetchIdle /\ TaskIdle /\ GroupIdle
SpecPatch == InitPatch
             /\ [][PatchNext]_vars

-----------------------------------------------------------------------------
(* Claims on get_entity_status *)

Max(S) == CHOOSE m \in S : \A x \in S : x <= m

\* positions of the submissions that have a workflow targeting entity e
Targeting(e) ==
    {i \in 1..Len(submissions) :
        \E j \in 1..Len(submissions[i].workflows) :
            submissions[i].workflows[j].entityName = e}

\* ... among the submissions made on the requested entity type
TargetingOfType(e) ==
    {i \in Targeting(e) : submissions[i].entityType = etype}

TsOf(i) == Timestamp(submissions[i].submissionDate)

\* the record of e is the record of a latest submission among positions T
LatestAmong(e, T) ==
    /\ T # {}
    /\ status_df[e].timestamp = Max({TsOf(i) : i \in T})
    /\ \E i \in T :
        /\ TsOf(i) = status_df[e].timestamp
        /\ \E j \in 1..Len(submissions[i].workflows) :
            /\ submissions[i].workflows[j].entityName = e
            /\ submissions[i].workflows[j].status = status_df[e].status

\* C1 (as stated): the returned record of every entity carries the maximum
\* submission timestamp among ALL submissions that have a workflow targeting
\* the entity, and the status of a workflow of such a latest submission.
C1_LatestOfAllSubmissions ==
    pcS = "returned" =>
        \A e \in DOMAIN status_df : LatestAmong(e, Targeting(e))

\* C1 (amended): the returned record of every entity carries the maximum
\* submission timestamp among the submissions made on the requested entity
\* type that have a workflow targeting the entity, and the status of a
\* workflow of such a latest submission; never that of an earlier one.
C1_LatestOfTypedSubmissions ==
    pcS = "returned" =>
        \A e \in DOMAIN status_df : LatestAmong(e, TargetingOfType(e))

\* C1 witness: S1 was Succeeded in the later submission, which is listed first,
\* and Failed in the earlier one, listed second; the table is returned.
C1_Witness ==
    /\ pcS = "returned"
    /\ Len(submissions) = 2
    /\ TargetingOfType("S1") = {1, 2}
    /\ TsOf(1) > TsOf(2)
    /\ submissions[1].workflows[1].status = "Succeeded"
    /\ submissions[2].workflows[1].status = "Failed"
    /\ status_df["S1"].status = "Succeeded"

\* C8: once a submission-detail fetch has answered with a non-success code,
\* get_entity_status has raised and no status table is returned, whatever was
\* folded before.
C8_FetchFailureAborts ==
    fetch_failed => (pcS = "raised" /\ status_df = EmptyDict)

\* C8 witness: the fetch of a later submission failed after an earlier
\* submission had already been folded into entity_dict.
C8_Witness ==
    /\ fetch_failed
    /\ k >= 1
    /\ entity_dict # EmptyDict
    /\ pcS = "raised"

-----------------------------------------------------------------------------
(* Claims on get_stats *)

Min(S) == CHOOSE m \in S : \A x \in S : m <= x

\* positions of the attempts of shard index x in the attempt list
PositionsOf(x) ==
    {p \in 1..Len(calls) :
        "shardIndex" \in DOMAIN calls[p] /\ calls[p].shardIndex = x}

ShardIndices == {x \in ShardChoices : PositionsOf(x) # {}}

NoShardIndex == \A p \in 1..Len(calls) : "shardIndex" \notin DOMAIN calls[p]

NoCacheHit == \A p \in 1..Len(calls) : ~calls[p].callCaching.hit

\* the task block has run to its end for this entity
TaskDone == pcT \in {"rollup", "done"}

C3_CacheHitAddsNothing ==
    (pcT = "done" /\ ~NoCacheHit) =>
        (wf.est_cost = <<0>> /\ wf.cpu_hours = <<0>>)

\* C7 (as stated): once get_workflow_metadata has answered with success, the
\* metadata of the entity is stored and the while loop is left.
C7_SuccessLeavesLoop ==
    last_code = 200 =>
        /\ ~fetch
        /\ ki >= 1
        /\ SucceededIndex(stats_status)[ki] \in metadata_dict

\* C9: for a task none of whose attempts carries a shard index there is exactly
\* one accepted attempt, the last of the list, and the preemptions are exactly
\* the attempts before it, in order.
C9_UnshardedLastAccepted ==
    (pcT \in {"stats", "rollup", "done", "raised"} /\ NoShardIndex) =>
        /\ Len(SuccessValues(successes)) = 1
        /\ SuccessValues(successes)[1] = calls[Len(calls)]
        /\ preemptions = [p \in 1..(Len(calls) - 1) |-> calls[p]]

\* C9 witness: an unsharded task with three attempts has been resolved.
C9_Witness ==
    /\ pcT = "stats"
    /\ NoShardIndex
    /\ Len(calls) = 3
    /\ Len(preemptions) = 2

\* positions of the attempts the shard resolution classifies as preemptions:
\* every attempt after the first of its shard index (scattered), every attempt
\* but the last (not scattered)
PreemptPositions ==
    IF IsScatter(calls)
    THEN {p \in 1..Len(calls) :
            \E q \in 1..(p - 1) : calls[q].shardIndex = calls[p].shardIndex}
    ELSE 1..(Len(calls) - 1)

AcceptedPositions ==
    IF IsScatter(calls) THEN {Max(PositionsOf(x)) : x \in ShardIndices}
                        ELSE {Len(calls)}

\* hours of the 'waiting for quota' events of one attempt
QuotaWaitOf(j) ==
    LET IsQuota(e) == e.description = "waiting for quota"
        q == SelectSeq(j.executionEvents, IsQuota)
    IN  SumSeq([n \in 1..Len(q) |->
            Hours(Timestamp(q[n].endTime) - Timestamp(q[n].startTime))])

\* wall-clock hours of one attempt
DurationOf(j) == Hours(Timestamp(j.end) - Timestamp(j.start))

\* C11: time_h of a task is the sum over its accepted attempts of the duration
\* in hours less the 'waiting for quota' events of that attempt; the events of
\* the other attempts are not subtracted.
C11_TimeLessQuotaWait ==
    TaskDone =>
        row.time_h =
            <<SumSeq([p \in 1..Len(calls) |->
                IF p \in AcceptedPositions
                THEN DurationOf(calls[p]) - QuotaWaitOf(calls[p]) ELSE 0])>>

\* C11 witness: an accepted attempt of 2.0 h with a quota wait of 0.5 h gives
\* 1.5 h, while the quota wait of the attempt before it is not subtracted.
C11_Witness ==
    /\ pcT = "done"
    /\ Len(calls) = 2
    /\ AcceptedPositions = {2}
    /\ DurationOf(calls[2]) = 200
    /\ QuotaWaitOf(calls[2]) = 50
    /\ QuotaWaitOf(calls[1]) = 50
    /\ row.time_h = <<150>>

\* C12: for a task without cache hit, est_cost is the sum over all attempts,
\* accepted or not, of the rate of the attempt's machine type and preemptible
\* flag times the attempt's duration in hours; no quota wait is subtracted.
C12_EstCostAllAttempts ==
    (TaskDone /\ NoCacheHit) =>
        row.est_cost =
            <<SumSeq([p \in 1..Len(calls) |->
                GetVmCost(calls[p].jes.machineType[2], calls[p].preemptible)
                    * DurationOf(calls[p])])>>

\* C12 witness: two preemptible attempts on different machine types, the
\* n1-standard-8 one of 1.25 h at 0.05 per hour with a quota wait, the other of
\* 0.5 h at 0.01 per hour: 0.0625 + 0.005.
C12_Witness ==
    /\ pcT = "done"
    /\ Len(calls) = 2
    /\ calls[1].preemptible /\ calls[2].preemptible
    /\ calls[1].jes.machineType[2] = <<"g1", "small">>
    /\ calls[2].jes.machineType[2] = <<"n1", "standard", "8">>
    /\ DurationOf(calls[1]) = 50
    /\ DurationOf(calls[2]) = 125
    /\ QuotaWaitOf(calls[2]) = 50
    /\ row.est_cost = <<675>>

\* C20: total_time_h of a task is the sum of the durations in hours of all its
\* attempts less the quota wait of the accepted attempts, the same amount that
\* time_h was reduced by; total_time_h - time_h is therefore the summed
\* duration of the attempts that were not accepted.
C20_TotalTimeAllAttempts ==
    TaskDone =>
        /\ row.total_time_h =
              <<SumSeq([p \in 1..Len(calls) |-> DurationOf(calls[p])])
                - SumSeq([p \in 1..Len(calls) |->
                      IF p \in AcceptedPositions THEN QuotaWaitOf(calls[p])
                                                 ELSE 0])>>
        /\ row.total_time_h[1] - row.time_h[1] =
              SumSeq([p \in 1..Len(calls) |->
                  IF p \in AcceptedPositions THEN 0 ELSE DurationOf(calls[p])])

\* C20 witness: a preempted attempt of 1 h with its own quota wait, then the
\* accepted attempt of 2 h with a quota wait of 0.5 h: 3 h - 0.5 h in total,
\* 1 h more than time_h.
C20_Witness ==
    /\ pcT = "done"
    /\ Len(calls) = 2
    /\ AcceptedPositions = {2}
    /\ DurationOf(calls[1]) = 100
    /\ QuotaWaitOf(calls[1]) = 50
    /\ DurationOf(calls[2]) = 200
    /\ QuotaWaitOf(calls[2]) = 50
    /\ row.total_time_h = <<250>>
    /\ row.time_h = <<150>>

-----------------------------------------------------------------------------
(* Claims on patch_attributes, checked under SpecPatch *)

\* C4 (as stated): with entity='sample', a failure inside the try block of one
\* incomplete entity is caught and logged, the loop goes on, and the call
\* completes without raising.
C4_FailureIsolated ==
    (entity = "sample" /\ try_failed) => pcP \in {"samples", "done", "start"}

\* the task at position t of the latest workflow of e is one whose outputs the
\* walk recovers: no top-level outputs, a final attempt with outputs, every key
\* an expected one, and a mapped attribute that is null for e
RecoverableTask(e, t) ==
    /\ metadata[e].outputs = <<>>
    /\ LET final == metadata[e].calls[t].attempts[Len(metadata[e].calls[t].attempts)]
       IN  /\ "outputs" \in DOMAIN final
           /\ \A i \in 1..Len(final.outputs) :
                 final.outputs[i].key \in DOMAIN OutputMap
           /\ \E i \in 1..Len(final.outputs) :
                 store0[e][OutputMap[final.outputs[i].key]] = Null

\* the attributes that the final attempt of task t maps to
RecoveredColumns(e, t) ==
    LET final == metadata[e].calls[t].attempts[Len(metadata[e].calls[t].attempts)]
    IN  {OutputMap[final.outputs[i].key] : i \in 1..Len(final.outputs)}

\* C5 (as stated): with dry_run=False, once the pass over an incomplete sample
\* with a recoverable task has fetched its metadata, the recovered attributes
\* are in the entity store and the applied counter of the task counts that
\* sample once.
C5_RecoveredWritten ==
    \A e \in Entities : \A t \in 1..2 :
        (/\ entity = "sample"
         /\ ~dry_run
         /\ e \in fetched
         /\ RecoverableTask(e, t))
        => /\ \A c \in RecoveredColumns(e, t) : store[e][c] = New
           /\ Last(metadata[e].calls[t].task) \in DOMAIN task_counts
           /\ task_counts[Last(metadata[e].calls[t].task)] =
                 Cardinality({x \in fetched : RecoverableTask(x, t)})

\* C6: a dry run issues no attribute write for samples or for sample sets and
\* leaves the entity store as it was, and every finished dry run on the same
\* remote state reports the same per-task candidate counts.
C6_DryRunWritesNothing ==
    dry_run =>
        /\ update_calls = 0
        /\ store = store0
        /\ \A i, j \in 1..Len(reported) : reported[i] = reported[j]

\* two dry runs over samples have finished and each reported a candidate
C6_Witness ==
    /\ dry_run
    /\ entity = "sample"
    /\ pcP = "done"
    /\ Len(reported) >= 2
    /\ "VariantCall" \in DOMAIN reported[2]
    /\ reported[2]["VariantCall"] >= 1
    /\ \E e \in fetched : metadata[e].outputs # <<>>

\* C13 (as stated): with dry_run=False, once the metadata of an incomplete
\* entity has been fetched and carries top-level outputs, every expected
\* attribute in them is in the entity store, whether or not the outputs also
\* hold keys that are not expected.
C13_TopLevelOutputsWritten ==
    \A e \in Entities :
        (~dry_run /\ e \in fetched /\ metadata[e].outputs # <<>>) =>
            \A i \in 1..Len(metadata[e].outputs) :
                Last(metadata[e].outputs[i].key) \in DOMAIN OutputMap =>
                    store[e][OutputMap[Last(metadata[e].outputs[i].key)]] = New

\* C14 (as stated): with entity='sample' and a status for every sample, once
\* the selection has run the incomplete samples are exactly those with an
\* expected attribute absent or null, whether all, some or none of the
\* expected columns exist in the table, and the selection itself does not
\* raise.
C14_IncompleteIffNull ==
    (/\ entity = "sample"
     /\ pcP \notin {"start", "idle"}
     /\ DOMAIN latest = Entities)
    => /\ ~(pcP = "raised" /\ passes = 0)
       /\ Range(incomplete) = {e \in Entities : HasNull(store0[e])}

-----------------------------------------------------------------------------
(* Further claims on get_entity_status, checked under Spec *)

\* positions of the submissions of the requested type that target e and carry
\* the timestamp recorded for e
RecordedTies(e) ==
    {i \in TargetingOfType(e) : TsOf(i) = status_df[e].timestamp}

\* C15 (as stated): of several submissions with equal timestamps that
\* reference the same entity, the record kept is that of the one processed
\* last in list order.
C15_TieLastSeenWins ==
    pcS = "returned" =>
        \A e \in DOMAIN status_df :
            status_df[e].submission_id = Max(RecordedTies(e))

\* C15 (amended): of several submissions with equal timestamps that reference
\* the same entity, the record kept is that of the one processed first in list
\* order; a later submission with the same timestamp does not replace it.
C15_TieFirstSeenWins ==
    pcS = "returned" =>
        \A e \in DOMAIN status_df :
            status_df[e].submission_id = Min(RecordedTies(e))

\* C15 witness: two submissions dated at the same instant (written with
\* different offsets) both run a workflow on S1, Failed in the first and
\* Succeeded in the second; the returned record is the first one's.
C15_Witness ==
    /\ pcS = "returned"
    /\ Len(submissions) = 2
    /\ TargetingOfType("S1") = {1, 2}
    /\ TsOf(1) = TsOf(2)
    /\ submissions[1].submissionDate # submissions[2].submissionDate
    /\ submissions[1].workflows[1].status = "Failed"
    /\ submissions[2].workflows[1].status = "Succeeded"
    /\ status_df["S1"].status = "Failed"
    /\ status_df["S1"].submission_id = 1

\* C16: a submission made on another entity type than the requested one is
\* passed over without raising: the step fetches nothing, leaves every record
\* as it was, and the loop goes on with the next submission.
C16_OtherTypeSkipped ==
    [][(/\ pcS = "loop"
        /\ k < Len(submissions)
        /\ submissions[k + 1].entityType # etype)
       => (/\ entity_dict' = entity_dict
           /\ fetch_failed' = fetch_failed
           /\ k' = k + 1
           /\ pcS' = "loop")]_vars

\* C16 witness: the first submission is of the other type and runs a workflow
\* on S1; the second, of the requested type, runs one on S2 only; the table
\* returned has a record for S2 and none for S1.
C16_Witness ==
    /\ pcS = "returned"
    /\ Len(submissions) = 2
    /\ submissions[1].entityType # etype
    /\ submissions[2].entityType = etype
    /\ 1 \in Targeting("S1")
    /\ Targeting("S2") = {2}
    /\ DOMAIN status_df = {"S2"}
    /\ ~fetch_failed

\* C19: a record of entity_dict changes only by a workflow whose submission
\* timestamp is strictly greater than the recorded one; a workflow with an
\* equal or smaller timestamp leaves the record as it is.
C19_ReplacedOnlyByNewer ==
    [][\A e \in DOMAIN entity_dict :
          entity_dict'[e] # entity_dict[e] =>
              entity_dict'[e].timestamp > entity_dict[e].timestamp]_vars

\* C19 witness: the second submission is older than the first, both run a
\* workflow on S1 with different statuses, and after both were folded the
\* record is still the first one's.
C19_Witness ==
    /\ pcS = "loop"
    /\ k = 2
    /\ TargetingOfType("S1") = {1, 2}
    /\ TsOf(2) < TsOf(1)
    /\ submissions[1].workflows[1].status # submissions[2].workflows[1].status
    /\ entity_dict["S1"].submission_id = 1
    /\ entity_dict["S1"].status = submissions[1].workflows[1].status

-----------------------------------------------------------------------------
(* Further claims on get_stats and patch_attributes *)

\* C17 (as stated): metadata that lacks an expected field never makes the
\* operation raise; here, a scattered task (its first attempt has a shard
\* index) with a later attempt that has none.
C17_MissingFieldNeverRaises ==
    (/\ IsScatter(calls)
     /\ \E p \in 2..Len(calls) : "shardIndex" \notin DOMAIN calls[p])
    => pcT # "raised"

\* the incomplete samples whose workflow has no top-level outputs and no task
\* with recoverable outputs: the loop passes over them and counts nothing
SkippedSamples ==
    {e \in Range(incomplete) :
        /\ metadata[e].outputs = <<>>
        /\ \A t \in 1..Len(metadata[e].calls) : ~RecoverableTask(e, t)}

\* C18 (as stated): a finished run over samples of which some were skipped
\* reports the number of skipped samples next to the per-task counts.
C18_SkipCountReported ==
    (/\ entity = "sample"
     /\ pcP = "done"
     /\ SkippedSamples # {})
    => /\ "skipped" \in DOMAIN reported[Len(reported)]
       /\ reported[Len(reported)]["skipped"] = Cardinality(SkippedSamples)

-----------------------------------------------------------------------------
(* Claims on the structure of the attempt lists, checked under SpecStats *)

\* the jobIds of the accepted attempts and of the preemptions
AcceptedIds == {SuccessValues(successes)[n].jobId :
                    n \in 1..Len(SuccessValues(successes))}
PreemptionIds == {preemptions[n].jobId : n \in 1..Len(preemptions)}

\* C24 (as stated): once the attempts of a task are resolved, no attempt is
\* both accepted and a preemption, no attempt is listed twice, and every
\* attempt of the task is one or the other.
C24_AttemptsPartitioned ==
    pcT \in {"stats", "rollup", "done"} =>
        /\ AcceptedIds \cap PreemptionIds = {}
        /\ AcceptedIds \cup PreemptionIds = 1..Len(calls)
        /\ Cardinality(PreemptionIds) = Len(preemptions)

\* C25 (as stated): get_stats never aborts on the assertion that the first
\* attempt is preemptible; here, for a task that is not scattered, has several
\* attempts and no cache hit, and whose first attempt is not preemptible.
C25_AssertionNeverFails ==
    (/\ NoShardIndex
     /\ NoCacheHit
     /\ Len(calls) > 1
     /\ ~calls[1].preemptible)
    => pcT # "raised"

\* C28 (as stated): when the loop over the submissions has ended without a
\* failed fetch and without any record, because there was no submission or
\* every one was skipped or had no workflows, an empty table is returned.
C28_EmptyTableReturned ==
    (/\ pcS \notin {"loop", "idle"}
     /\ ~fetch_failed
     /\ entity_dict = EmptyDict)
    => pcS = "returned"

\* C22: when some attempt of the task is a cache hit, max_preempt_time_h,
\* attempts, start_time, machine_type, est_cost and job_ids stay unset while
\* time_h and total_time_h are computed; without a cache hit, attempts is the
\* number of attempts of the task.
C22_CacheHitLeavesCellsUnset ==
    /\ (TaskDone /\ ~NoCacheHit) =>
          /\ row.max_preempt_time_h = <<>>
          /\ row.attempts = <<>>
          /\ row.start_time = <<>>
          /\ row.machine_type = <<>>
          /\ row.est_cost = <<>>
          /\ row.job_ids = <<>>
          /\ Len(row.time_h) = 1
          /\ Len(row.total_time_h) = 1
    /\ (TaskDone /\ NoCacheHit) => row.attempts = <<Len(calls)>>

\* C22 witness: of two attempts only the first is a cache hit; the two time
\* cells are set and the attempts cell is not.
C22_Witness ==
    /\ pcT = "done"
    /\ Len(calls) = 2
    /\ calls[1].callCaching.hit
    /\ ~calls[2].callCaching.hit
    /\ row.time_h = <<Hours(WorkflowTime(calls[2]))>>
    /\ row.total_time_h =
          <<Hours(WorkflowTime(calls[1])) + Hours(WorkflowTime(calls[2]))>>
    /\ row.attempts = <<>>
    /\ row.start_time = <<>>

-----------------------------------------------------------------------------
(* Claims on the counters of patch_attributes, checked under SpecPatch *)

\* the per-task counts a dry run has after its first m passes over the same
\* incomplete samples, table and metadata
RECURSIVE DryCounts(_)
DryCounts(m) ==
    IF m = 0 THEN EmptyDict
    ELSE TrySample(metadata[incomplete[m]], incomplete[m],
                   incomplete_df[incomplete[m]], TRUE, 204,
                   [raised |-> FALSE, store |-> store0,
                    counts |-> DryCounts(m - 1), updates |-> 0]).counts

\* C26 (as stated): with dry_run=False, after every pass whose metadata was
\* fetched the per-task counts are those a dry run has after the same passes,
\* also for a sample whose workflow has top-level outputs.
C26_SameCountsBothModes ==
    (/\ ~dry_run
     /\ entity = "sample"
     /\ pcP \in {"samples", "done", "raised"}
     /\ passes >= 1
     /\ incomplete[passes] \in fetched)
    => task_counts = DryCounts(passes)

\* the samples for which the outputs of the task at position t are in the store
WrittenFor(t) ==
    {e \in Entities :
        /\ RecoverableTask(e, t)
        /\ \A c \in RecoveredColumns(e, t) : store[e][c] = New}

-----------------------------------------------------------------------------
(* Claims on the tables get_stats returns, checked under SpecGroups *)

\* the first entity, in table order, of the group of workflow name w
FirstOf(w) ==
    CHOOSE i \in DOMAIN trees :
        /\ trees[i].workflowName = w
        /\ \A j \in DOMAIN trees :
              trees[j].workflowName = w =>
                  \E a, b \in 1..Len(EntityOrder) :
                      a <= b /\ EntityOrder[a] = i /\ EntityOrder[b] = j

\* the tasks of the group of entity i: those of the group's first entity
GroupTasks(i) == DOMAIN trees[FirstOf(trees[i].workflowName)].calls

\* the core count of a machine-type name: the integer after the last '-', or
\* 1 for a name that contains '-small' or '-micro'
CoreCount(name) ==
    IF \E n \in 2..Len(name) : name[n] \in {"small", "micro"} THEN 1
    ELSE IntOf(name[Len(name)])

\* the machine-type name of the last attempt of an attempt list
LastMachine(attempts) == attempts[Len(attempts)].jes.machineType[2]

\* cpu_hours of entity i where a task counts Factor(attempts) cores
CpuHoursWith(i, Factor(_)) ==
    SumSeq([n \in 1..Len(TaskOrder) |->
        IF TaskOrder[n] \in GroupTasks(i)
        THEN task_dfs[Last(TaskOrder[n])][i].total_time_h[1]
                * Factor(trees[i].calls[TaskOrder[n]])
        ELSE 0])

\* C21 (as stated): the cpu_hours of every entity of the table is the sum over
\* the tasks of total_time_h times the core count of the machine type of the
\* task's last attempt.
C21_CpuHoursLastMachine ==
    \A i \in DOMAIN workflow_status_df :
        LET Factor(attempts) == CoreCount(LastMachine(attempts))
        IN  workflow_status_df[i].cpu_hours = <<CpuHoursWith(i, Factor)>>

\* C23 (as stated): the workflow-level table returned has a row for every
\* Succeeded entity, and the per-task tables returned cover the tasks of every
\* group, also with two or more workflow names.
C23_EveryGroupReturned ==
    pcG = "returned" =>
        /\ DOMAIN workflow_status_df = DOMAIN trees
        /\ \A i \in DOMAIN trees : \A t \in GroupTasks(i) :
              /\ Last(t) \in DOMAIN task_dfs
              /\ i \in DOMAIN task_dfs[Last(t)]

=============================================================================
